---------------------------- MODULE Spec2Model ----------------------------
(***************************************************************************)
(* A model of the RSS-Extractor: URL normalisation (utils.py), the feed    *)
(* validator and the multi-strategy Feed Finder (feed_finder.py), the hub  *)
(* parser and its bounded batch validation (hub_parser.py), the per-site   *)
(* orchestrator and the batch limiter (main.py), and the persistence       *)
(* upsert (utils.py).                                                      *)
(*                                                                         *)
(* Python strings are TLA+ strings; a character is a string of length 1.   *)
(* Python's None is the string NONE, which no URL of the model equals.     *)
(***************************************************************************)
EXTENDS Integers, Sequences, FiniteSets, TLC

VARIABLES
    \* the normalisers applied to a bounded input
    arg,        \* the string handed to the normaliser
    fn,         \* "none", or the function applied: "feed" | "site"
    once,       \* f(arg)
    twice,      \* f(f(arg)), UNSET until computed
    \* the rss_feeds table
    db,         \* its rows: website_url -> feed_urls
    nsaves,     \* the number of save_website_result calls made
    lastSave,   \* the last call: its arguments and what it did
    \* the network
    web,        \* what the sites answer
    \* process_all
    websites,       \* the input sites
    max_concurrent, \* the size of the global limiter
    semaphore,      \* the value of the global limiter
    batch,          \* "running" until process_all returns
    queue,          \* the finished tasks as_completed has not handed over yet
    results,        \* the results list of process_all
    \* process_website, per task
    pc,             \* where the task is
    site,           \* the normalised site URL (url)
    route,          \* which route the task took
    outcome,        \* what the task returned, or that it raised
    feeds,          \* the final feed list
    calls,          \* the URLs the task has sent a GET to
    probes,         \* the verdicts of the feed validator
    \* the hub route
    vin,            \* the records handed to validate_feeds
    vpc,            \* where the check of each record is
    vsem,           \* the value of the validation limiter
    feed_objects,   \* the records of the hub page
    \* the Feed Finder route
    spc,            \* where each strategy is
    found,          \* what each strategy returned
    found_feeds,    \* what find_feeds returned
    \* main_async
    main,           \* where main_async is
    csv,            \* the sites read from the input CSV
    pool,           \* the connection pool: "none" | "open" | "closed"
    schema          \* whether init_db_schema has run

normVars == <<arg, fn, once, twice>>
saveVars == <<db, nsaves, lastSave>>
batchVars == <<websites, max_concurrent, semaphore, batch, queue, results>>

taskVars == <<pc, site, route, outcome, feeds, calls, probes>>

hubVars == <<vin, vpc, vsem, feed_objects>>

finderVars == <<spc, found, found_feeds>>

procVars == <<batchVars, taskVars, hubVars, finderVars>>

mainVars == <<main, csv, pool, schema>>

vars == <<normVars, saveVars, web, procVars, mainVars>>

(***************************************************************************)
(* Bounds of the model.                                                    *)
(***************************************************************************)
\* longest body (the part after an optional scheme prefix) of an input
\* string handed to the normalisers
MaxLen == 3

(***************************************************************************)
(* Python's str methods, as the code uses them.                            *)
(***************************************************************************)
NONE == "<None>"

\* a variable that holds no value yet
UNSET == "<unset>"

Char(s, i) == SubSeq(s, i, i)

\* s[i:] with a 1-based i
From(s, i) == SubSeq(s, i, Len(s))

\* x = v; F(x): v is evaluated once, however often F uses it
Let(v, F(_)) == CHOOSE r \in {F(x) : x \in {v}} : TRUE

\* s[:n]
Prefix(s, n) == IF Len(s) <= n THEN s ELSE SubSeq(s, 1, n)

StartsWith(s, p) == Len(s) >= Len(p) /\ SubSeq(s, 1, Len(p)) = p

EndsWith(s, p) == Len(s) >= Len(p) /\ SubSeq(s, Len(s) - Len(p) + 1, Len(s)) = p

\* sub occurs in s at (1-based) position i
OccursAt(s, sub, i) == i >= 1 /\ i + Len(sub) - 1 <= Len(s) /\ SubSeq(s, i, i + Len(sub) - 1) = sub

\* s.find(sub, start): the least 1-based position >= start, 0 where Python gives -1
Find(s, sub, start) ==
    Let({i \in start..Len(s) : OccursAt(s, sub, i)}, LAMBDA at :
        IF at = {} THEN 0 ELSE CHOOSE i \in at : \A j \in at : i <= j)

\* s.rfind(sub)
RFind(s, sub) ==
    Let({i \in 1..Len(s) : OccursAt(s, sub, i)}, LAMBDA at :
        IF at = {} THEN 0 ELSE CHOOSE i \in at : \A j \in at : i >= j)

\* sub in s
Contains(s, sub) == Find(s, sub, 1) # 0

\* s.count(sub) for the non-overlapping occurrences Python counts
RECURSIVE CountFrom(_, _, _)
CountFrom(s, sub, start) ==
    IF Find(s, sub, start) = 0 THEN 0
    ELSE 1 + CountFrom(s, sub, Find(s, sub, start) + Len(sub))

Count(s, sub) == CountFrom(s, sub, 1)

UpperChars == "ABCDEFGHIJKLMNOPQRSTUVWXYZ"
LowerChars == "abcdefghijklmnopqrstuvwxyz"

ToLower == [c \in {Char(UpperChars, k) : k \in 1..26} |->
               Char(LowerChars, CHOOSE k \in 1..26 : Char(UpperChars, k) = c)]

LowerChar(c) == IF c \in DOMAIN ToLower THEN ToLower[c] ELSE c

\* s.lower()
RECURSIVE Lower(_)
Lower(s) ==
    IF Len(s) <= 1 THEN LowerChar(s)
    ELSE Lower(SubSeq(s, 1, Len(s) \div 2)) \o Lower(SubSeq(s, Len(s) \div 2 + 1, Len(s)))

\* s.rstrip(c) for a one-character c
RECURSIVE RStrip(_, _)
RStrip(s, c) == IF s # "" /\ Char(s, Len(s)) = c THEN RStrip(SubSeq(s, 1, Len(s) - 1), c) ELSE s

RECURSIVE LStrip(_, _)
LStrip(s, c) == IF s # "" /\ Head(s) = c THEN LStrip(Tail(s), c) ELSE s

\* s.strip(): the white space of the model's alphabet is the blank
Strip(s) == RStrip(LStrip(s, " "), " ")

\* s.split(sep) for a one-character sep
RECURSIVE Split(_, _)
Split(s, sep) ==
    IF Find(s, sep, 1) = 0 THEN <<s>>
    ELSE <<SubSeq(s, 1, Find(s, sep, 1) - 1)>> \o Split(From(s, Find(s, sep, 1) + 1), sep)

\* sep.join(parts)
RECURSIVE Join(_, _)
Join(parts, sep) ==
    IF parts = <<>> THEN ""
    ELSE IF Len(parts) = 1 THEN parts[1]
    ELSE parts[1] \o sep \o Join(Tail(parts), sep)

\* list(dict.fromkeys(xs)): the first occurrence of every element, in order
RECURSIVE Dedup(_)
Dedup(xs) ==
    IF xs = <<>> THEN <<>>
    ELSE Let(Dedup(SubSeq(xs, 1, Len(xs) - 1)), LAMBDA front :
             IF \E i \in 1..Len(front) : front[i] = xs[Len(xs)] THEN front
             ELSE Append(front, xs[Len(xs)]))

Range(xs) == {xs[i] : i \in 1..Len(xs)}

\* the numbers of a set in increasing order
RECURSIVE SortedSeqOfNats(_)
SortedSeqOfNats(S) ==
    IF S = {} THEN <<>>
    ELSE Let(CHOOSE m \in S : \A n \in S : n <= m, LAMBDA m :
             Append(SortedSeqOfNats(S \ {m}), m))

(***************************************************************************)
(* urllib.parse.urlparse on a string that starts with http:// or https://, *)
(* which is all the code hands it: the scheme, the netloc up to the first  *)
(* of / ? #, the fragment after the first #, the query after the first ?,  *)
(* and the params after the first ; of the last path segment.  An          *)
(* unbalanced [ or ] in the netloc raises ValueError.                      *)
(***************************************************************************)
HasScheme(url) == StartsWith(url, "http://") \/ StartsWith(url, "https://")

\* the least of the positions that are not 0, or 0
MinPos(S) ==
    IF S \ {0} = {} THEN 0 ELSE CHOOSE i \in S \ {0} : \A j \in S \ {0} : i <= j

\* s.split(sep, 1): the part before the first sep, and the part after it
Before(s, sep) == Let(Find(s, sep, 1), LAMBDA i : IF i = 0 THEN s ELSE SubSeq(s, 1, i - 1))

After(s, sep) == Let(Find(s, sep, 1), LAMBDA i : IF i = 0 THEN "" ELSE From(s, i + Len(sep)))

\* urllib's _splitparams
SplitParams(path) ==
    Let(IF Contains(path, "/") THEN Find(path, ";", RFind(path, "/")) ELSE Find(path, ";", 1),
        LAMBDA i : IF i = 0 THEN [path |-> path, params |-> ""]
                   ELSE [path |-> SubSeq(path, 1, i - 1), params |-> From(path, i + 1)])

\* urllib's _splitnetloc: where the netloc ends in the text after scheme://
NetlocEnd(rest) == MinPos({Find(rest, "/", 1), Find(rest, "?", 1), Find(rest, "#", 1)})

UrlparseTail(scheme, netloc, tail) ==
    Let(Before(tail, "#"), LAMBDA nofrag :
    Let(SplitParams(Before(nofrag, "?")), LAMBDA pp :
        [raises   |-> Contains(netloc, "[") # Contains(netloc, "]"),
         scheme   |-> scheme,
         netloc   |-> netloc,
         path     |-> pp.path,
         params   |-> pp.params,
         query    |-> After(nofrag, "?"),
         fragment |-> After(tail, "#")]))

Urlparse(url) ==
    Let(After(url, "://"), LAMBDA rest :
    Let(NetlocEnd(rest), LAMBDA stop :
        UrlparseTail(Before(url, ":"),
                     IF stop = 0 THEN rest ELSE SubSeq(rest, 1, stop - 1),
                     IF stop = 0 THEN "" ELSE From(rest, stop))))

(***************************************************************************)
(* utils.normalize_url and utils.normalize_feed_url.  Each has a companion *)
(* that tells whether the call raises (urlparse's ValueError).             *)
(***************************************************************************)
WithScheme(url) == IF HasScheme(url) THEN url ELSE "https://" \o url

NormalizeUrlRaises(url) == url # "" /\ Urlparse(WithScheme(url)).raises

NormalizeUrl(url) ==
    IF url = "" THEN url
    ELSE Let(Urlparse(WithScheme(url)), LAMBDA parsed :
             parsed.scheme \o "://" \o RStrip(parsed.netloc, "/"))

NormalizeFeedUrlRaises(feed_url) ==
    Let(Strip(feed_url), LAMBDA stripped :
        stripped # "" /\ Urlparse(WithScheme(stripped)).raises)

FeedUrlPath(parsed) == IF parsed.path # "" THEN RStrip(parsed.path, "/") ELSE ""

NormalizeFeedUrl(feed_url) ==
    IF feed_url = "" \/ feed_url = NONE THEN NONE
    ELSE Let(Strip(feed_url), LAMBDA stripped :
             IF stripped = "" THEN NONE
             ELSE Let(Urlparse(WithScheme(stripped)), LAMBDA parsed :
                      Let(parsed.scheme \o "://" \o parsed.netloc \o FeedUrlPath(parsed),
                          LAMBDA normalized :
                              IF parsed.query # "" THEN normalized \o "?" \o parsed.query
                              ELSE normalized)))

(***************************************************************************)
(* The normalisers applied once and twice to a bounded input.              *)
(***************************************************************************)
Alphabet == {"a", "/", ";", "?", "#", " ", "["}

RECURSIVE Strings(_)
Strings(n) ==
    IF n = 0 THEN {""}
    ELSE Let(Strings(n - 1), LAMBDA shorter :
             shorter \cup {s \o c : s \in shorter, c \in Alphabet})

NormInputs == {p \o s : p \in {"", "http://", "https://"}, s \in Strings(MaxLen)}

InitNorm ==
    /\ arg \in NormInputs
    /\ fn = "none"
    /\ once = UNSET
    /\ twice = UNSET

\* normalize_feed_url(arg), where it does not raise
ApplyFeed ==
    /\ fn = "none"
    /\ ~NormalizeFeedUrlRaises(arg)
    /\ fn' = "feed"
    /\ once' = NormalizeFeedUrl(arg)
    /\ UNCHANGED <<arg, twice, saveVars, web, mainVars, procVars>>

\* normalize_url(arg), where it does not raise
ApplySite ==
    /\ fn = "none"
    /\ ~NormalizeUrlRaises(arg)
    /\ fn' = "site"
    /\ once' = NormalizeUrl(arg)
    /\ UNCHANGED <<arg, twice, saveVars, web, mainVars, procVars>>

\* the same function applied to its own result
ApplyAgain ==
    /\ fn # "none"
    /\ twice = UNSET
    /\ once # NONE
    /\ twice' = IF fn = "feed" THEN NormalizeFeedUrl(once) ELSE NormalizeUrl(once)
    /\ UNCHANGED <<arg, fn, once, saveVars, web, mainVars, procVars>>

NextNorm == ApplyFeed \/ ApplySite \/ ApplyAgain

\* the normalisers are not in use
IdleNorm ==
    /\ arg = ""
    /\ fn = "none"
    /\ once = UNSET
    /\ twice = UNSET

(***************************************************************************)
(* utils.normalize_feed_list: split on ';', normalise every piece, drop    *)
(* the invalid and the repeated ones, sort.  Python orders strings by code *)
(* point.                                                                  *)
(***************************************************************************)
AsciiOrder == " #%&+-./0123456789:;=?@ABCDEFGHIJKLMNOPQRSTUVWXYZ[]_abcdefghijklmnopqrstuvwxyz~"

Ord(c) == Find(AsciiOrder, c, 1)

RECURSIVE StrLess(_, _)
StrLess(a, b) ==
    IF a = "" THEN b # ""
    ELSE IF b = "" THEN FALSE
    ELSE IF Head(a) # Head(b) THEN Ord(Head(a)) < Ord(Head(b))
    ELSE StrLess(Tail(a), Tail(b))

\* sorted(xs) for a list without repetitions
RECURSIVE SortedSet(_)
SortedSet(S) ==
    IF S = {} THEN <<>>
    ELSE Let(CHOOSE m \in S : \A o \in S : m = o \/ StrLess(m, o), LAMBDA m :
             <<m>> \o SortedSet(S \ {m}))

Sorted(xs) == SortedSet(Range(xs))

NotFound == "Not found"

IsUrl(u) == u # NONE

NormalizeFeedListRaises(rss_string) ==
    /\ rss_string \notin {"", NONE, NotFound}
    /\ Let(Split(rss_string, ";"), LAMBDA urls :
           \E i \in 1..Len(urls) : NormalizeFeedUrlRaises(urls[i]))

NormalizeFeedList(rss_string) ==
    IF rss_string \in {"", NONE, NotFound} THEN <<>>
    ELSE Let(Split(rss_string, ";"), LAMBDA urls :
             Sorted(Dedup(SelectSeq([i \in 1..Len(urls) |-> NormalizeFeedUrl(urls[i])], IsUrl))))

(***************************************************************************)
(* utils.save_website_result on the rss_feeds table: db maps the           *)
(* website_url of every row to its feed_urls (NONE for NULL).              *)
(***************************************************************************)
\* save_website_result calls made in one behaviour
MaxSaves == 3

SaveSites == {"a.co", "https://a.co/", "b.co", "[b.co"}

SaveRss == {NotFound,
            "https://a.co/f",
            "https://a.co/g",
            "https://a.co/g; https://a.co/f",
            "https://a.co/f/; https://a.co/f",
            "https://a.co/h; a.co/g/; https://a.co/f"}

\* old_count: the non-blank pieces of the stored string
StoredList(old_feed_string) ==
    IF old_feed_string \in {"", NONE} THEN <<>>
    ELSE Let(Split(old_feed_string, ";"), LAMBDA pieces :
             SelectSeq([i \in 1..Len(pieces) |-> Strip(pieces[i])], LAMBDA u : u # ""))

StoredCount(old_feed_string) == Len(StoredList(old_feed_string))

\* new_feed_string
NewFeedString(new_list) == IF new_list # <<>> THEN Join(new_list, "; ") ELSE NONE

\* the mutant of SkipUpdate: a tie overwrites
SkipUpdateOnDecreaseOnly(new_count, old_count) == new_count < old_count

\* "if new_count <= old_count: return"
SkipUpdate(new_count, old_count) == new_count <= old_count

\* INSERT ... ON CONFLICT (website_url) DO UPDATE SET feed_urls = EXCLUDED.feed_urls
Upsert(table, website_url, feed_urls) ==
    [k \in DOMAIN table \cup {website_url} |-> IF k = website_url THEN feed_urls ELSE table[k]]

InitSave ==
    /\ db = [k \in {} |-> NONE]
    /\ nsaves = 0
    /\ lastSave = [website |-> NONE, rss |-> NONE, did |-> "none"]

SaveWebsiteResult(website_url, rss_string) ==
    /\ nsaves < MaxSaves
    /\ nsaves' = nsaves + 1
    /\ UNCHANGED <<normVars, web, mainVars, procVars>>
    /\ IF NormalizeUrlRaises(website_url) \/ NormalizeFeedListRaises(rss_string)
       THEN /\ db' = db
            /\ lastSave' = [website |-> website_url, rss |-> rss_string, did |-> "raised"]
       ELSE \E key \in {NormalizeUrl(website_url)}, new_list \in {NormalizeFeedList(rss_string)} :
              \E did \in {IF key \notin DOMAIN db THEN "inserted"
                          ELSE IF SkipUpdate(Len(new_list), StoredCount(db[key])) THEN "skipped"
                          ELSE "updated"} :
                /\ db' = IF did = "skipped" THEN db ELSE Upsert(db, key, NewFeedString(new_list))
                /\ lastSave' = [website |-> website_url, rss |-> rss_string, did |-> did]

NextSave == \E w \in SaveSites, r \in SaveRss : SaveWebsiteResult(w, r)

\* the table is not in use
IdleSave == InitSave

(***************************************************************************)
(* The network.  Pages maps a URL to what a GET of it answers, web.dead    *)
(* holds the hosts every call to which fails (a timeout, a refused         *)
(* connection).  A response is its status, its Content-Type, its text and, *)
(* for an HTML page, what BeautifulSoup finds in it: the feed <link> tags  *)
(* and the <a href> tags, in document order.  Status 0 stands for          *)
(* session.get raising.                                                    *)
(***************************************************************************)
Response(status, ctype, body) ==
    [status |-> status, ctype |-> ctype, body |-> body, links |-> <<>>, anchors |-> <<>>]

HtmlPage(body, links, anchors) ==
    [status |-> 200, ctype |-> "text/html", body |-> body, links |-> links, anchors |-> anchors]

Raised == Response(0, "", "")

NotFoundPage == Response(404, "text/html", "<html>")

\* session.get raised, or response.raise_for_status() does
FetchFails(resp) == resp.status = 0 \/ resp.status >= 400

(***************************************************************************)
(* urllib.parse.urljoin(base, href) for the bases the code passes (a       *)
(* normalised site URL, scheme://netloc) and the hrefs of the model's      *)
(* pages: an absolute http(s) URL, a path from the root, a relative name.  *)
(***************************************************************************)
UrljoinRaises(base, href) == HasScheme(href) /\ Urlparse(href).raises

Urljoin(base, href) ==
    IF href = "" THEN base
    ELSE IF HasScheme(href) THEN href
    ELSE IF StartsWith(href, "/") THEN base \o href
    ELSE base \o "/" \o href

(***************************************************************************)
(* The feed validator: FeedFinder._check_feed and the check_feed of        *)
(* RSSHubParser.validate_feeds, each on the response of its GET.           *)
(***************************************************************************)
FeedTypes == {"xml", "rss", "atom"}

FeedMarkers == {"<rss", "<feed", "<?xml", "<atom"}

BodyPrefix == 500

\* the mutant of CheckFeed: the status is not looked at
CheckFeedAnyStatus(resp) ==
    /\ resp.status # 0
    /\ \/ \E t \in FeedTypes : Contains(Lower(resp.ctype), t)
       \/ Let(Lower(Prefix(resp.body, BodyPrefix)), LAMBDA text :
              \E marker \in FeedMarkers : Contains(text, marker))

CheckFeed(resp) ==
    IF resp.status = 0 THEN FALSE
    ELSE IF resp.status # 200 THEN FALSE
    ELSE IF \E t \in FeedTypes : Contains(Lower(resp.ctype), t) THEN TRUE
    ELSE Let(Lower(Prefix(resp.body, BodyPrefix)), LAMBDA text :
             \E marker \in FeedMarkers : Contains(text, marker))

HubCheckFeed(resp) ==
    IF resp.status = 0 THEN FALSE
    ELSE IF resp.status # 200 THEN FALSE
    ELSE IF \E t \in FeedTypes : Contains(Lower(resp.ctype), t) THEN TRUE
    ELSE Let(Lower(Prefix(resp.body, BodyPrefix)), LAMBDA text :
             \E marker \in FeedMarkers : Contains(text, marker))

(***************************************************************************)
(* utils.detect_cms and utils.get_cms_feed_paths.                          *)
(***************************************************************************)
DetectCms(html_text) ==
    Let(Lower(html_text), LAMBDA text :
        IF Contains(text, "wp-content") \/ Contains(text, "wp-") THEN "wordpress"
        ELSE IF Contains(text, "drupal") THEN "drupal"
        ELSE IF Contains(text, "/ghost/") THEN "ghost"
        ELSE IF Contains(text, "medium.com") THEN "medium"
        ELSE NONE)

GetCmsFeedPaths(cms) ==
    CASE cms = "wordpress" -> <<"/feed", "/comments/feed", "/blog/feed">>
      [] cms = "drupal"    -> <<"/rss.xml", "/feed">>
      [] cms = "ghost"     -> <<"/rss/">>
      [] cms = "medium"    -> <<"/feed">>
      [] OTHER             -> <<>>

(***************************************************************************)
(* FeedFinder: the candidates of each of the five strategies.              *)
(***************************************************************************)
CommonPaths ==
    <<"/rss", "/feed", "/rss.xml", "/feed.xml", "/atom.xml", "/index.xml", "/feeds",
      "/blog/feed", "/rss-feed", "/site/rss", "/site/feed", "/syndication", "/feed/rss",
      "/atom", "/news/rss", "/blog/rss">>

NestedPaths == <<"/feed", "/feed.xml", "/rss", "/rss.xml", "/atom.xml">>

AnchorCap == 30

Strategies == {"cms", "link", "anchor", "common", "nested"}

\* [f(x) for x in xs]
Map(xs, F(_)) == [k \in 1..Len(xs) |-> F(xs[k])]

HasHref(tag) == tag.href # ""

\* an <a> whose href looks like a feed link
LooksLikeFeedLink(tag) ==
    Let(Lower(tag.href), LAMBDA href :
        \E x \in {"rss", "feed", "xml", "atom"} : Contains(href, x))

\* the URLs a strategy probes, in order
Candidates(strategy, url, resp) ==
    CASE strategy = "cms" ->
           Map(GetCmsFeedPaths(DetectCms(resp.body)), LAMBDA path : NormalizeUrl(url) \o path)
      [] strategy = "link" ->
           Map(SelectSeq(resp.links, HasHref), LAMBDA tag : Urljoin(url, tag.href))
      [] strategy = "anchor" ->
           Prefix(Dedup(Map(SelectSeq(resp.anchors, LooksLikeFeedLink),
                            LAMBDA tag : Urljoin(url, tag.href))), AnchorCap)
      [] strategy = "common" ->
           Map(CommonPaths, LAMBDA path : NormalizeUrl(url) \o path)
      [] strategy = "nested" ->
           Let(Urlparse(url), LAMBDA parsed :
               IF parsed.path = "" \/ LStrip(RStrip(parsed.path, "/"), "/") = "" THEN <<>>
               ELSE Map(NestedPaths,
                        LAMBDA sub : NormalizeUrl(url) \o RStrip(parsed.path, "/") \o sub))

\* urljoin raises on an href of the page: the strategy raises
StrategyRaises(strategy, url, resp) ==
    \/ /\ strategy = "link"
       /\ \E k \in 1..Len(resp.links) :
            HasHref(resp.links[k]) /\ UrljoinRaises(url, resp.links[k].href)
    \/ /\ strategy = "anchor"
       /\ \E k \in 1..Len(resp.anchors) :
            LooksLikeFeedLink(resp.anchors[k]) /\ UrljoinRaises(url, resp.anchors[k].href)

(***************************************************************************)
(* RSSHubParser: is_feed_url and the records parse_feeds extracts from a   *)
(* fetched hub page.                                                       *)
(***************************************************************************)
IsFeedUrl(url) ==
    IF url = "" THEN FALSE
    ELSE Let(Lower(url), LAMBDA url_lower :
             \/ \E suffix \in {".rss", ".xml", ".atom", "/rss", "/feed", "/atom"} :
                    EndsWith(url_lower, suffix)
             \/ \E part \in {"/rss/", "/feed/", "/feeds/", "/atom/",
                             "rss.xml", "feed.xml", "atom.xml"} :
                    Contains(url_lower, part))

IsFeedAnchor(tag) == IsFeedUrl(tag.href)

\* the first record of each URL, records without a URL dropped
RECURSIVE FirstOfEachUrl(_)
FirstOfEachUrl(records) ==
    IF records = <<>> THEN <<>>
    ELSE Let(FirstOfEachUrl(SubSeq(records, 1, Len(records) - 1)), LAMBDA front :
             IF \/ records[Len(records)].url = NONE
                \/ \E k \in 1..Len(front) : front[k].url = records[Len(records)].url
             THEN front
             ELSE Append(front, records[Len(records)]))

ParseFeedsRaises(hub_url, resp) ==
    /\ ~FetchFails(resp)
    /\ resp.body # ""
    /\ \/ \E k \in 1..Len(resp.links) :
            HasHref(resp.links[k]) /\ UrljoinRaises(NormalizeUrl(hub_url), resp.links[k].href)
       \/ \E k \in 1..Len(resp.anchors) :
            /\ IsFeedAnchor(resp.anchors[k])
            /\ UrljoinRaises(NormalizeUrl(hub_url), resp.anchors[k].href)

ParseFeeds(hub_url, resp) ==
    IF FetchFails(resp) \/ resp.body = "" THEN <<>>
    ELSE FirstOfEachUrl(
             Map(SelectSeq(resp.links, HasHref), LAMBDA tag :
                 [category |-> "General", title |-> tag.title,
                  url |-> NormalizeFeedUrl(Urljoin(NormalizeUrl(hub_url), tag.href))])
             \o Map(SelectSeq(resp.anchors, IsFeedAnchor), LAMBDA tag :
                 [category |-> tag.category, title |-> tag.title,
                  url |-> NormalizeFeedUrl(Urljoin(NormalizeUrl(hub_url), tag.href))]))

(***************************************************************************)
(* main.is_hub_page, and what process_website makes of the URLs a route    *)
(* hands back: each normalised again, the empty ones dropped, the list     *)
(* deduplicated (dict.fromkeys), then joined or replaced by the sentinel.  *)
(***************************************************************************)
HubPatterns == {"/rss", "/feeds", "/feed-list", "/subscribe", "/syndication"}

IsHubPage(url) ==
    Let(Lower(url), LAMBDA url_lower : \E pattern \in HubPatterns : Contains(url_lower, pattern))

IsSome(x) == x # NONE

NormalizedFeeds(urls) == Dedup(SelectSeq(Map(urls, NormalizeFeedUrl), IsSome))

RecordUrl(f) == f.url

\* the mutant of RssStr: no sentinel for the empty list
RssStrNoSentinel(feed_list) == Join(feed_list, "; ")

RssStr(feed_list) == IF feed_list # <<>> THEN Join(feed_list, "; ") ELSE NotFound

\* the mutant of HubValidateOver: five records are validated too
HubValidateOverFour == 5 - 1

\* the hub route validates the records only when there are more than this
HubValidateOver == 5

\* the mutant of ValidateLimit
ValidateLimitPlusOne == 10 + 1

\* asyncio.Semaphore(10) of validate_feeds
ValidateLimit == 10

\* Semaphore.acquire goes through without waiting
CanAcquireAlways(value) == TRUE

CanAcquire(value) == value > 0

\* [url for url, is_feed in zip(urls, results) if is_feed is True]
Confirmed(urls, is_feed) ==
    Let({k \in 1..Len(urls) : is_feed[k]}, LAMBDA keep :
        Map(SortedSeqOfNats(keep), LAMBDA k : urls[k]))

\* the merge of find_feeds over the five results, in the order of gather
StrategyOrder == <<"cms", "link", "anchor", "common", "nested">>

RECURSIVE Concat(_)
Concat(lists) == IF lists = <<>> THEN <<>> ELSE Head(lists) \o Concat(Tail(lists))

\* the mutant of MergeFound: one raising strategy empties the merge
MergeFoundUnlessRaised(state, lists) ==
    IF \E st \in Strategies : state[st] = "raised" THEN <<>>
    ELSE NormalizedFeeds(Concat(Map(StrategyOrder, LAMBDA st : lists[st])))

MergeFound(state, lists) ==
    NormalizedFeeds(Concat(Map(StrategyOrder, LAMBDA st :
        IF state[st] = "done" THEN lists[st] ELSE <<>>)))

(***************************************************************************)
(* The sites of the model.  a.co is a WordPress site with feed links in    *)
(* its page and answers of every kind on the common feed paths; g.co is a  *)
(* Ghost site one of whose anchors does not parse; rss.a.co and            *)
(* feeds.b.co are hub pages, the second with MaxRecords feed links;        *)
(* subscribe.c.co is a hub page with a link that does not parse;           *)
(* feeds.f.co and feeds.s.co are hub pages with HubValidateOver feed links *)
(* and one more, of which one link of feeds.s.co is a feed; e.co answers   *)
(* 404 to everything and d.co does not answer at all.                      *)
(***************************************************************************)
MaxRecords == 11

MaxSites == 3

MaxConcurrent == 2

RECURSIVE Blanks(_)
Blanks(n) ==
    IF n = 0 THEN ""
    ELSE IF n % 2 = 0 THEN Let(Blanks(n \div 2), LAMBDA half : half \o half)
    ELSE " " \o Blanks(n - 1)

Name(k) == SubSeq("abcdefghijklmnopqrstuvwxyz", k, k)

A(href) == [href |-> href, title |-> "Feed " \o href, category |-> "News"]

\* what feeds.b.co answers for its k-th feed link
HubFeedResponse(k) ==
    CASE k % 3 = 1 -> Response(200, "application/rss+xml", "<rss>")
      [] k % 3 = 2 -> Response(200, "text/html", "<html><RSS>")
      [] OTHER     -> Response(404, "application/xml", "<rss>")

Pages ==
    ("https://a.co" :> HtmlPage("<html><link href=/wp-content/x.css>",
                                <<A("/rss/"), A(""), A("feed.xml")>>,
                                <<A("/feed;q/;p/"), A("/about"), A("/feed"), A("/FEED"),
                                  A("/feed"), A("https://d.co/rss")>>))
    @@ ("https://a.co/rss"         :> Response(200, "application/rss+xml", "<rss>"))
    @@ ("https://a.co/rss/"        :> Response(200, "text/html", "<html>"))
    @@ ("https://a.co/feed"        :> Response(200, "text/html", "<RSS version=2>"))
    @@ ("https://a.co/FEED"        :> Response(200, "", "<?xml"))
    @@ ("https://a.co/feed;q/;p/"  :> Response(200, "application/atom+xml", ""))
    @@ ("https://a.co/rss.xml"     :> Response(404, "application/xml", "<rss>"))
    @@ ("https://a.co/feed.xml"    :> Response(200, "text/html", Blanks(BodyPrefix - 4) \o "<rss>"))
    @@ ("https://a.co/atom.xml"    :> Response(200, "text/html", Blanks(BodyPrefix - 3) \o "<rss>"))
    @@ ("https://a.co/index.xml"   :> Response(200, "TEXT/XML; charset=utf-8", ""))
    @@ ("https://a.co/feeds"       :> Response(200, "text/html", "<html>"))
    @@ ("https://a.co/blog/feed"   :> Response(500, "text/html", "<?xml"))
    @@ ("https://a.co/atom"        :> Response(200, "text/plain", "<feed xmlns>"))
    @@ ("https://a.co/syndication" :> Response(301, "application/atom+xml", "<feed>"))
    @@ ("http://g.co" :> HtmlPage("<script src=/ghost/a.js>", <<>>,
                                   <<A("http://[x/feed"), A("/rss/")>>))
    @@ ("http://g.co/rss/"         :> Response(200, "application/rss+xml", "<rss>"))
    @@ ("https://rss.a.co" :> HtmlPage("<html>", <<A("/feed/;q/;p/")>>,
                                       <<A("/feed"), A("/about"), A("/b.xml"), A("/feed/")>>))
    @@ ("https://feeds.b.co" :> HtmlPage("<html>", <<>>,
                                         [k \in 1..MaxRecords |-> A("/" \o Name(k) \o ".xml")]))
    @@ [u \in {"https://feeds.b.co/" \o Name(k) \o ".xml" : k \in 1..MaxRecords} |->
            HubFeedResponse(CHOOSE k \in 1..MaxRecords :
                                u = "https://feeds.b.co/" \o Name(k) \o ".xml")]
    @@ ("https://subscribe.c.co" :> HtmlPage("<html>", <<>>, <<A("http://[x/rss")>>))
    @@ ("https://feeds.f.co" :> HtmlPage("<html>", <<>>,
                                         [k \in 1..HubValidateOver |-> A("/" \o Name(k) \o ".xml")]))
    @@ ("https://feeds.s.co" :> HtmlPage("<html>", <<>>,
                                         [k \in 1..(HubValidateOver + 1) |->
                                              A("/" \o Name(k) \o ".xml")]))
    @@ ("https://feeds.s.co/a.xml" :> Response(200, "application/rss+xml", "<rss>"))
    @@ ("https://feeds.s.co/b.xml" :> Response(200, "text/html", "<html>"))

Webs == {[dead |-> dead] : dead \in {{"d.co"}, {"d.co", "a.co", "rss.a.co", "feeds.b.co"}}}

\* session.get(url, ...): no answer from a dead host, 404 for an unknown page
Get(url) ==
    IF Urlparse(url).netloc \in web.dead THEN Raised
    ELSE IF url \in DOMAIN Pages THEN Pages[url]
    ELSE NotFoundPage

\* the sites of a batch, and the sites processed one at a time
BatchSites == <<"d.co", "rss.a.co", "e.co/rss", "[x", "">>

Sites ==
    Range(BatchSites) \cup {"a.co/Feeds/", "http://g.co", "feeds.b.co/list", "subscribe.c.co",
                            "feeds.f.co", "feeds.s.co", "http://g.co/blog"}

RECURSIVE SeqsUpTo(_, _)
SeqsUpTo(S, n) ==
    IF n = 0 THEN {<<>>}
    ELSE Let(SeqsUpTo(S, n - 1), LAMBDA shorter :
             shorter \cup {Append(q, x) : q \in {r \in shorter : Len(r) = n - 1}, x \in S})

\* The batches of up to MaxSites sites.  process_all starts its tasks in the
\* order of a set (as_completed), so a batch stands for all its permutations:
\* the batches are listed in one order of their sites.
Batches ==
    {Map(q, LAMBDA k : BatchSites[k]) :
        q \in {r \in SeqsUpTo(1..Len(BatchSites), MaxSites) :
                 r # <<>> /\ \A k \in 1..(Len(r) - 1) : r[k] <= r[k + 1]}}

\* max_concurrent=20 of process_all
DefaultConcurrent == 20

\* a call of process_all: a batch under a small limiter, or one site under
\* the default one
Runs ==
    {[websites |-> b, max_concurrent |-> m] : b \in Batches, m \in 1..MaxConcurrent}
    \cup {[websites |-> <<w>>, max_concurrent |-> DefaultConcurrent] : w \in Sites}

(***************************************************************************)
(* process_all over a batch: one process_website task per site, all        *)
(* sharing the limiter; each task runs to its first await in one step and  *)
(* then from answer to answer.                                             *)
(***************************************************************************)
Tasks == 1..Len(websites)

NoOutcome == [raised |-> FALSE, website |-> UNSET, rss |-> UNSET]

Inside == {"hub", "validating", "finder", "strategies"}

InitBatch ==
    /\ web \in Webs
    /\ \E run \in Runs :
         /\ websites = run.websites
         /\ max_concurrent = run.max_concurrent
    /\ semaphore = max_concurrent
    /\ batch = "running"
    /\ queue = <<>>
    /\ results = <<>>
    /\ pc = [i \in Tasks |-> "created"]
    /\ site = [i \in Tasks |-> UNSET]
    /\ route = [i \in Tasks |-> "none"]
    /\ outcome = [i \in Tasks |-> NoOutcome]
    /\ feeds = [i \in Tasks |-> <<>>]
    /\ calls = [i \in Tasks |-> {}]
    /\ probes = [i \in Tasks |-> {}]
    /\ vin = [i \in Tasks |-> <<>>]
    /\ vpc = [i \in Tasks |-> <<>>]
    /\ vsem = [i \in Tasks |-> 0]
    /\ feed_objects = [i \in Tasks |-> <<>>]
    /\ spc = [i \in Tasks |-> [st \in Strategies |-> "idle"]]
    /\ found = [i \in Tasks |-> [st \in Strategies |-> <<>>]]
    /\ found_feeds = [i \in Tasks |-> <<>>]

\* the mutant of Finish: process_website returns without releasing the limiter
FinishKeepingPermit(i, final, permits) ==
    /\ feeds' = [feeds EXCEPT ![i] = final]
    /\ outcome' = [outcome EXCEPT
                     ![i] = [raised |-> FALSE, website |-> site[i], rss |-> RssStr(final)]]
    /\ pc' = [pc EXCEPT ![i] = "returned"]
    /\ semaphore' = permits
    /\ queue' = Append(queue, i)

\* the mutant of Finish: a hub route without feeds goes on to find_feeds
FinishOrFallBack(i, final, permits) ==
    IF route[i] = "hub" /\ final = <<>>
    THEN /\ pc' = [pc EXCEPT ![i] = "finder"]
         /\ semaphore' = permits
         /\ UNCHANGED <<feeds, outcome, queue>>
    ELSE /\ feeds' = [feeds EXCEPT ![i] = final]
         /\ outcome' = [outcome EXCEPT
                          ![i] = [raised |-> FALSE, website |-> site[i], rss |-> RssStr(final)]]
         /\ pc' = [pc EXCEPT ![i] = "returned"]
         /\ semaphore' = permits + 1
         /\ queue' = Append(queue, i)

\* process_website returns: lines 72-73, and the limiter is released
Finish(i, final, permits) ==
    /\ feeds' = [feeds EXCEPT ![i] = final]
    /\ outcome' = [outcome EXCEPT
                     ![i] = [raised |-> FALSE, website |-> site[i], rss |-> RssStr(final)]]
    /\ pc' = [pc EXCEPT ![i] = "returned"]
    /\ semaphore' = permits + 1
    /\ queue' = Append(queue, i)

\* the task gets the limiter, normalises its URL and takes a route
Start(i) ==
    /\ pc[i] = "created"
    /\ CanAcquire(semaphore)
    /\ IF NormalizeUrlRaises(websites[i])
       THEN /\ pc' = [pc EXCEPT ![i] = "raised"]
            /\ outcome' = [outcome EXCEPT ![i].raised = TRUE]
            /\ queue' = Append(queue, i)
            /\ UNCHANGED <<semaphore, site, route, feeds, calls>>
       ELSE \E normalized \in {NormalizeUrl(websites[i])} :
            IF normalized = ""
            THEN /\ pc' = [pc EXCEPT ![i] = "returned"]
                 /\ outcome' = [outcome EXCEPT
                                  ![i] = [raised |-> FALSE, website |-> websites[i],
                                          rss |-> NotFound]]
                 /\ site' = [site EXCEPT ![i] = normalized]
                 /\ queue' = Append(queue, i)
                 /\ UNCHANGED <<semaphore, route, feeds, calls>>
            ELSE /\ site' = [site EXCEPT ![i] = normalized]
                 /\ semaphore' = semaphore - 1
                 /\ route' = [route EXCEPT
                                ![i] = IF IsHubPage(normalized) THEN "hub" ELSE "finder"]
                 /\ pc' = [pc EXCEPT ![i] = route'[i]]
                 /\ calls' = [calls EXCEPT ![i] = {normalized}]
                 /\ UNCHANGED <<outcome, feeds, queue>>
    /\ UNCHANGED <<websites, max_concurrent, batch, results, probes, hubVars, finderVars>>
    /\ UNCHANGED <<normVars, saveVars, web, mainVars>>

\* the hub page is answered: parse_feeds returns, and the route goes on to
\* validate_feeds or to the end of process_website
HubFetchReturn(i) ==
    /\ pc[i] = "hub"
    /\ \E resp \in {Get(site[i])} :
         IF ParseFeedsRaises(site[i], resp)
         THEN /\ Finish(i, <<>>, semaphore)
              /\ UNCHANGED <<feed_objects, vin, vpc, vsem>>
         ELSE \E records \in {ParseFeeds(site[i], resp)} :
              /\ feed_objects' = [feed_objects EXCEPT ![i] = records]
              /\ IF Len(records) > HubValidateOver
                 THEN /\ vin' = [vin EXCEPT ![i] = records]
                      /\ vpc' = [vpc EXCEPT ![i] = [k \in 1..Len(records) |-> "waiting"]]
                      /\ vsem' = [vsem EXCEPT ![i] = ValidateLimit]
                      /\ pc' = [pc EXCEPT ![i] = "validating"]
                      /\ UNCHANGED <<feeds, outcome, semaphore, queue>>
                 ELSE /\ Finish(i, NormalizedFeeds(Map(records, RecordUrl)), semaphore)
                      /\ UNCHANGED <<vin, vpc, vsem>>
    /\ UNCHANGED <<websites, max_concurrent, batch, results, site, route, calls, probes>>
    /\ UNCHANGED <<normVars, saveVars, web, mainVars, finderVars>>

\* validate_with_limit of record k gets the validation limiter and sends its GET
ValidateAcquire(i, k) ==
    /\ pc[i] = "validating"
    /\ vpc[i][k] = "waiting"
    /\ \A j \in 1..(k - 1) : vpc[i][j] # "waiting"
    /\ CanAcquire(vsem[i])
    /\ vsem' = [vsem EXCEPT ![i] = @ - 1]
    /\ vpc' = [vpc EXCEPT ![i][k] = "checking"]
    /\ calls' = [calls EXCEPT ![i] = @ \cup {vin[i][k].url}]
    /\ UNCHANGED <<batchVars, pc, site, route, outcome, feeds, probes, vin, feed_objects>>
    /\ UNCHANGED <<normVars, saveVars, web, mainVars, finderVars>>

\* the GET of record k is answered: check_feed returns, the limiter is released
ValidateReturn(i, k) ==
    /\ pc[i] = "validating"
    /\ vpc[i][k] = "checking"
    /\ \E is_feed \in {HubCheckFeed(Get(vin[i][k].url))} :
         /\ vpc' = [vpc EXCEPT ![i][k] = IF is_feed THEN "valid" ELSE "invalid"]
         /\ probes' = [probes EXCEPT
                         ![i] = @ \cup {[url |-> vin[i][k].url, is_feed |-> is_feed,
                                         by |-> "hub"]}]
    /\ vsem' = [vsem EXCEPT ![i] = @ + 1]
    /\ UNCHANGED <<batchVars, pc, site, route, outcome, feeds, calls, vin, feed_objects>>
    /\ UNCHANGED <<normVars, saveVars, web, mainVars, finderVars>>

IsChecked(state) == state \in {"valid", "invalid"}

\* gather is through: validate_feeds returns and process_website ends
ValidateFeedsReturn(i) ==
    /\ pc[i] = "validating"
    /\ \A k \in 1..Len(vin[i]) : IsChecked(vpc[i][k])
    /\ \E valid_feeds \in {Map(SortedSeqOfNats({k \in 1..Len(vin[i]) : vpc[i][k] = "valid"}),
                               LAMBDA k : vin[i][k])} :
         /\ feed_objects' = [feed_objects EXCEPT ![i] = valid_feeds]
         /\ Finish(i, NormalizedFeeds(Map(valid_feeds, RecordUrl)), semaphore)
    /\ UNCHANGED <<websites, max_concurrent, batch, results, site, route, calls, probes>>
    /\ UNCHANGED <<vin, vpc, vsem>>
    /\ UNCHANGED <<normVars, saveVars, web, mainVars, finderVars>>

\* the landing page is answered: find_feeds gives up, or starts the five
\* strategies, of which those with nothing to fetch are through at once
FindFetchReturn(i) ==
    /\ pc[i] = "finder"
    /\ \E resp \in {Get(site[i])} :
         IF FetchFails(resp)
         THEN /\ Finish(i, <<>>, semaphore)
              /\ UNCHANGED <<spc, calls>>
         ELSE /\ pc' = [pc EXCEPT ![i] = "strategies"]
              /\ spc' = [spc EXCEPT ![i] = [st \in Strategies |->
                           IF StrategyRaises(st, site[i], resp) THEN "raised"
                           ELSE IF Candidates(st, site[i], resp) = <<>> THEN "done"
                           ELSE "running"]]
              /\ calls' = [calls EXCEPT ![i] = @ \cup UNION
                             {Range(Candidates(st, site[i], resp)) :
                                  st \in {t \in Strategies : spc'[i][t] = "running"}}]
              /\ UNCHANGED <<feeds, outcome, semaphore, queue>>
    /\ UNCHANGED <<websites, max_concurrent, batch, results, site, route, probes>>
    /\ UNCHANGED <<found, found_feeds>>
    /\ UNCHANGED <<normVars, saveVars, web, mainVars, hubVars>>

\* the probes of a strategy are answered: it returns the confirmed ones
StrategyReturn(i, st) ==
    /\ pc[i] = "strategies"
    /\ spc[i][st] = "running"
    /\ \E urls \in {Candidates(st, site[i], Get(site[i]))} :
       \E is_feed \in {Map(urls, LAMBDA u : CheckFeed(Get(u)))} :
         /\ found' = [found EXCEPT ![i][st] = Confirmed(urls, is_feed)]
         /\ probes' = [probes EXCEPT
                         ![i] = @ \cup {[url |-> urls[k], is_feed |-> is_feed[k],
                                         by |-> "finder"] : k \in 1..Len(urls)}]
    /\ spc' = [spc EXCEPT ![i][st] = "done"]
    /\ UNCHANGED <<batchVars, pc, site, route, outcome, feeds, calls, found_feeds>>
    /\ UNCHANGED <<normVars, saveVars, web, mainVars, hubVars>>

\* gather is through: find_feeds merges and returns, process_website ends
FindFeedsReturn(i) ==
    /\ pc[i] = "strategies"
    /\ \A st \in Strategies : spc[i][st] # "running"
    /\ \E merged \in {MergeFound(spc[i], found[i])} :
         /\ found_feeds' = [found_feeds EXCEPT ![i] = merged]
         /\ Finish(i, NormalizedFeeds(merged), semaphore)
    /\ UNCHANGED <<websites, max_concurrent, batch, results, site, route, calls, probes>>
    /\ UNCHANGED <<spc, found>>
    /\ UNCHANGED <<normVars, saveVars, web, mainVars, hubVars>>

\* as_completed hands over the next finished task: its result is appended,
\* its exception is printed and dropped
Collect ==
    /\ batch = "running"
    /\ queue # <<>>
    /\ \E i \in {Head(queue)} :
         /\ results' = IF outcome[i].raised THEN results
                       ELSE Append(results, [website |-> outcome[i].website,
                                             rss |-> outcome[i].rss])
         /\ pc' = [pc EXCEPT ![i] = "collected"]
    /\ queue' = Tail(queue)
    /\ UNCHANGED <<websites, max_concurrent, semaphore, batch>>
    /\ UNCHANGED <<site, route, outcome, feeds, calls, probes>>
    /\ UNCHANGED <<normVars, saveVars, web, mainVars, hubVars, finderVars>>

\* every task has been handed over: process_all returns results
ProcessAllReturn ==
    /\ batch = "running"
    /\ \A i \in Tasks : pc[i] = "collected"
    /\ batch' = "returned"
    /\ UNCHANGED <<websites, max_concurrent, semaphore, queue, results>>
    /\ UNCHANGED <<normVars, saveVars, web, mainVars, taskVars, hubVars, finderVars>>

NextBatch ==
    \/ \E i \in Tasks : Start(i)
    \/ \E i \in Tasks : HubFetchReturn(i)
    \/ \E i \in Tasks : \E k \in 1..Len(vin[i]) : ValidateAcquire(i, k)
    \/ \E i \in Tasks : \E k \in 1..Len(vin[i]) : ValidateReturn(i, k)
    \/ \E i \in Tasks : ValidateFeedsReturn(i)
    \/ \E i \in Tasks : FindFetchReturn(i)
    \/ \E i \in Tasks : \E st \in Strategies : StrategyReturn(i, st)
    \/ \E i \in Tasks : FindFeedsReturn(i)
    \/ Collect
    \/ ProcessAllReturn

\* no batch is running
IdleBatch ==
    /\ web = [dead |-> {}]
    /\ websites = <<>>
    /\ max_concurrent = 0
    /\ semaphore = 0
    /\ batch = "returned"
    /\ queue = <<>>
    /\ results = <<>>
    /\ pc = <<>>
    /\ site = <<>>
    /\ route = <<>>
    /\ outcome = <<>>
    /\ feeds = <<>>
    /\ calls = <<>>
    /\ probes = <<>>
    /\ vin = <<>>
    /\ vpc = <<>>
    /\ vsem = <<>>
    /\ feed_objects = <<>>
    /\ spc = <<>>
    /\ found = <<>>
    /\ found_feeds = <<>>

(***************************************************************************)
(* process_website read from top to bottom, as one call on its own runs:   *)
(* what it returns for a site, given what the network answers.             *)
(***************************************************************************)
IsFeedRecord(f) == HubCheckFeed(Get(f.url))

HubRoute(hub_url) ==
    Let(Get(hub_url), LAMBDA resp :
        IF ParseFeedsRaises(hub_url, resp) THEN <<>>
        ELSE Let(ParseFeeds(hub_url, resp), LAMBDA records :
                 NormalizedFeeds(Map(IF Len(records) > HubValidateOver
                                     THEN SelectSeq(records, IsFeedRecord)
                                     ELSE records,
                                     RecordUrl))))

FindFeeds(site_url) ==
    Let(Get(site_url), LAMBDA resp :
        IF FetchFails(resp) THEN <<>>
        ELSE NormalizedFeeds(Concat(Map(StrategyOrder, LAMBDA st :
                 IF StrategyRaises(st, site_url, resp) THEN <<>>
                 ELSE Let(Candidates(st, site_url, resp), LAMBDA urls :
                          Confirmed(urls, Map(urls, LAMBDA u : CheckFeed(Get(u)))))))))

ProcessWebsite(original_url) ==
    IF NormalizeUrlRaises(original_url) THEN [NoOutcome EXCEPT !.raised = TRUE]
    ELSE Let(NormalizeUrl(original_url), LAMBDA normalized :
             IF normalized = ""
             THEN [raised |-> FALSE, website |-> original_url, rss |-> NotFound]
             ELSE [raised  |-> FALSE,
                   website |-> normalized,
                   rss     |-> RssStr(IF IsHubPage(normalized) THEN HubRoute(normalized)
                                      ELSE NormalizedFeeds(FindFeeds(normalized)))])

(***************************************************************************)
(* RSSHubParser.looks_like_hub_page, applied to bodies put together from   *)
(* up to MaxFrags fragments of hub pages.                                  *)
(***************************************************************************)
HubIndicators ==
    {"rss feed", "subscribe to", "feed url", "syndication", "available feeds", "rss feeds",
     "atom feed", "news feeds", "feed list", "rss channels", "subscribe via rss"}

\* the mutant of IsHub: two feed links are enough
IsHubOnTwoLinks(indicator_count, feed_link_count) ==
    indicator_count >= 2 \/ feed_link_count >= 2

IsHub(indicator_count, feed_link_count) == indicator_count >= 2 \/ feed_link_count >= 3

LooksLikeHubPage(html_content) ==
    Let(Lower(html_content), LAMBDA content_lower :
        IsHub(Cardinality({indicator \in HubIndicators : Contains(content_lower, indicator)}),
              Count(content_lower, ".xml") + Count(content_lower, "href=\"/feed")
              + Count(content_lower, "href=\"/rss") + Count(content_lower, "atom.xml")))

\* Python's str(bool)
Str(b) == IF b THEN "True" ELSE "False"

MaxFrags == 3

Fragments ==
    {"<p>All our RSS Feed links</p>", "<h1>RSS feeds</h1>", "Subscribe to ", "syndication",
     "<a href=\"/feed/\">", "<a HREF=\"/rss\">", "<a href=\"a.XML\">", "<a href=\"/atom.xml\">",
     "<p>news</p>"}

HubBodies == {Join(q, "") : q \in SeqsUpTo(Fragments, MaxFrags)}

InitHub ==
    /\ arg \in HubBodies
    /\ fn = "none"
    /\ once = UNSET
    /\ twice = UNSET

\* looks_like_hub_page(arg)
ApplyHub ==
    /\ fn = "none"
    /\ fn' = "hub"
    /\ once' = Str(LooksLikeHubPage(arg))
    /\ UNCHANGED <<arg, twice, saveVars, web, mainVars, procVars>>

NextHub == ApplyHub

(***************************************************************************)
(* main_async: the sites are read, the pool is created and the schema      *)
(* initialised, process_all runs the batch under the default limiter, the  *)
(* results are saved one by one and the pool is closed.                    *)
(***************************************************************************)
CsvInputs ==
    {<<>>, <<"d.co">>, <<"[x", "rss.a.co">>, <<"a.co/Feeds/", "http://g.co">>,
     <<"feeds.b.co/list">>, <<"subscribe.c.co", "">>, <<"rss.a.co", "e.co/rss", "rss.a.co">>}

\* the mutant of OnConnectFailure: main_async goes on without a pool
OnConnectFailureGoOn == "schema"

\* create_db_pool raised: main_async returns
OnConnectFailure == "done"

InitMain ==
    /\ main = "start"
    /\ csv \in CsvInputs
    /\ pool = "none"
    /\ schema = FALSE
    /\ web \in Webs
    /\ websites = <<>>
    /\ max_concurrent = 0
    /\ semaphore = 0
    /\ batch = "returned"
    /\ queue = <<>>
    /\ results = <<>>
    /\ pc = <<>>
    /\ site = <<>>
    /\ route = <<>>
    /\ outcome = <<>>
    /\ feeds = <<>>
    /\ calls = <<>>
    /\ probes = <<>>
    /\ vin = <<>>
    /\ vpc = <<>>
    /\ vsem = <<>>
    /\ feed_objects = <<>>
    /\ spc = <<>>
    /\ found = <<>>
    /\ found_feeds = <<>>

\* the sites are read: without any, main_async returns; else it connects
ReadWebsites ==
    /\ main = "start"
    /\ main' = IF csv = <<>> THEN "done" ELSE "connecting"
    /\ UNCHANGED <<csv, pool, schema, normVars, saveVars, web, procVars>>

\* create_db_pool returns the pool
ConnectOk ==
    /\ main = "connecting"
    /\ pool' = "open"
    /\ main' = "schema"
    /\ UNCHANGED <<csv, schema, normVars, saveVars, web, procVars>>

\* create_db_pool raises
ConnectFail ==
    /\ main = "connecting"
    /\ main' = OnConnectFailure
    /\ UNCHANGED <<csv, pool, schema, normVars, saveVars, web, procVars>>

\* init_db_schema returns and process_all is called with the sites
SchemaOk ==
    /\ main = "schema"
    /\ schema' = TRUE
    /\ main' = "processing"
    /\ websites' = csv
    /\ max_concurrent' = DefaultConcurrent
    /\ semaphore' = DefaultConcurrent
    /\ batch' = "running"
    /\ queue' = <<>>
    /\ results' = <<>>
    /\ pc' = [i \in 1..Len(csv) |-> "created"]
    /\ site' = [i \in 1..Len(csv) |-> UNSET]
    /\ route' = [i \in 1..Len(csv) |-> "none"]
    /\ outcome' = [i \in 1..Len(csv) |-> NoOutcome]
    /\ feeds' = [i \in 1..Len(csv) |-> <<>>]
    /\ calls' = [i \in 1..Len(csv) |-> {}]
    /\ probes' = [i \in 1..Len(csv) |-> {}]
    /\ vin' = [i \in 1..Len(csv) |-> <<>>]
    /\ vpc' = [i \in 1..Len(csv) |-> <<>>]
    /\ vsem' = [i \in 1..Len(csv) |-> 0]
    /\ feed_objects' = [i \in 1..Len(csv) |-> <<>>]
    /\ spc' = [i \in 1..Len(csv) |-> [st \in Strategies |-> "idle"]]
    /\ found' = [i \in 1..Len(csv) |-> [st \in Strategies |-> <<>>]]
    /\ found_feeds' = [i \in 1..Len(csv) |-> <<>>]
    /\ UNCHANGED <<csv, pool, normVars, saveVars, web>>

\* init_db_schema raises: the exception leaves main_async
SchemaFail ==
    /\ main = "schema"
    /\ main' = "raised"
    /\ UNCHANGED <<csv, pool, schema, normVars, saveVars, web, procVars>>

\* save_batch_results saves the next result
SaveNextResult ==
    /\ main = "processing"
    /\ batch = "returned"
    /\ nsaves < Len(results)
    /\ lastSave.did # "raised"
    /\ SaveWebsiteResult(results[nsaves + 1].website, results[nsaves + 1].rss)

\* save_batch_results is through, or has raised: the pool is closed
SaveBatchReturn ==
    /\ main = "processing"
    /\ batch = "returned"
    /\ nsaves = Len(results) \/ lastSave.did = "raised"
    /\ pool' = "closed"
    /\ main' = "done"
    /\ UNCHANGED <<csv, schema, normVars, saveVars, web, procVars>>

NextMain ==
    \/ ReadWebsites
    \/ ConnectOk
    \/ ConnectFail
    \/ SchemaOk
    \/ SchemaFail
    \/ NextBatch
    \/ SaveNextResult
    \/ SaveBatchReturn

\* main_async is not running
IdleMain ==
    /\ main = "done"
    /\ csv = <<>>
    /\ pool = "none"
    /\ schema = FALSE

(***************************************************************************)
(* The calls of process_all of the termination check: each site on its     *)
(* own, batches of more sites than permits with sites that raise, are      *)
(* invalid or fail, and a batch under one permit in which a site validates *)
(* more records than the validation limiter admits at once while another   *)
(* site waits for the permit.                                              *)
(***************************************************************************)
LiveBatches == {<<"[x", "", "rss.a.co">>, <<"d.co", "e.co/rss", "rss.a.co">>}

LiveRuns ==
    {[websites |-> <<w>>, max_concurrent |-> DefaultConcurrent] : w \in Sites \ {"feeds.b.co/list"}}
    \cup {[websites |-> b, max_concurrent |-> m] : b \in LiveBatches, m \in {1, 2}}
    \cup {[websites |-> <<"feeds.b.co/list", "d.co">>, max_concurrent |-> 1]}

InitLive ==
    /\ web \in Webs
    /\ \E run \in LiveRuns :
         /\ websites = run.websites
         /\ max_concurrent = run.max_concurrent
    /\ semaphore = max_concurrent
    /\ batch = "running"
    /\ queue = <<>>
    /\ results = <<>>
    /\ pc = [i \in Tasks |-> "created"]
    /\ site = [i \in Tasks |-> UNSET]
    /\ route = [i \in Tasks |-> "none"]
    /\ outcome = [i \in Tasks |-> NoOutcome]
    /\ feeds = [i \in Tasks |-> <<>>]
    /\ calls = [i \in Tasks |-> {}]
    /\ probes = [i \in Tasks |-> {}]
    /\ vin = [i \in Tasks |-> <<>>]
    /\ vpc = [i \in Tasks |-> <<>>]
    /\ vsem = [i \in Tasks |-> 0]
    /\ feed_objects = [i \in Tasks |-> <<>>]
    /\ spc = [i \in Tasks |-> [st \in Strategies |-> "idle"]]
    /\ found = [i \in Tasks |-> [st \in Strategies |-> <<>>]]
    /\ found_feeds = [i \in Tasks |-> <<>>]

(***************************************************************************)
(* The specifications: one per part of the program, each over all the      *)
(* variables, the parts not in use staying idle.                           *)
(***************************************************************************)
\* the normalisers on bounded inputs
InitSpecNorm == InitNorm /\ IdleSave /\ IdleBatch /\ IdleMain

SpecNorm == InitSpecNorm /\ [][NextNorm]_vars

\* any sequence of save_website_result calls on an empty table
InitSpecSave == InitSave /\ IdleNorm /\ IdleBatch /\ IdleMain

SpecSave == InitSpecSave /\ [][NextSave]_vars

InitSpec == InitBatch /\ IdleNorm /\ IdleSave /\ IdleMain

Spec == InitSpec /\ [][NextBatch]_vars

InitSpecHub == InitHub /\ IdleSave /\ IdleBatch /\ IdleMain

SpecHub == InitSpecHub /\ [][NextHub]_vars

InitSpecMain == InitMain /\ IdleNorm /\ IdleSave

SpecMain == InitSpecMain /\ [][NextMain]_vars

InitSpecLive == InitLive /\ IdleNorm /\ IdleSave /\ IdleMain

\* the event loop runs a task that can go on
SchedulerFair ==
    /\ WF_vars(\E i \in Tasks : Start(i))
    /\ WF_vars(\E i \in Tasks : \E k \in 1..Len(vin[i]) : ValidateAcquire(i, k))
    /\ WF_vars(Collect)
    /\ WF_vars(ProcessAllReturn)

\* a task waits for the answer to a request: when this holds Answer is enabled
Awaiting ==
    \E i \in Tasks :
        \/ pc[i] \in {"hub", "finder"}
        \/ pc[i] = "validating" /\ \E k \in 1..Len(vpc[i]) : vpc[i][k] = "checking"
        \/ pc[i] = "strategies" /\ \E st \in Strategies : spc[i][st] = "running"

Answer ==
    \E i \in Tasks :
        \/ HubFetchReturn(i)
        \/ \E k \in 1..Len(vin[i]) : ValidateReturn(i, k)
        \/ FindFetchReturn(i)
        \/ \E st \in Strategies : StrategyReturn(i, st)

\* every request is answered or times out: weak fairness of Answer, with
\* its enabling condition written out
AnswersArrive == []<>(~Awaiting) \/ []<><<Answer>>_vars

\* a gather all of whose awaitables are through: when this holds
\* GatherReturn is enabled
GatherThrough ==
    \E i \in Tasks :
        \/ pc[i] = "validating" /\ \A k \in 1..Len(vin[i]) : IsChecked(vpc[i][k])
        \/ pc[i] = "strategies" /\ \A st \in Strategies : spc[i][st] # "running"

GatherReturn == \E i \in Tasks : ValidateFeedsReturn(i) \/ FindFeedsReturn(i)

\* the event loop resumes the task that awaited the gather: weak fairness
\* of GatherReturn, with its enabling condition written out
GathersReturn == []<>(~GatherThrough) \/ []<><<GatherReturn>>_vars

SpecLive ==
    InitSpecLive /\ [][NextBatch]_vars /\ SchedulerFair /\ AnswersArrive /\ GathersReturn

(***************************************************************************)
(* C8: normalisation is idempotent: wherever normalize_feed_url returns a  *)
(* URL, normalising that URL again returns it unchanged, and likewise for  *)
(* normalize_url.                                                          *)
(***************************************************************************)
C8_NormalizationIdempotent == twice # UNSET => twice = once

(***************************************************************************)
(* C4: a save_website_result call changes the stored record of a site only *)
(* if the site had no record or the call's feed count is strictly greater  *)
(* than the stored feed count; on a tie or a decrease the record stays as  *)
(* it was, no row is ever removed, and so the stored feed count of a site  *)
(* never decreases.                                                        *)
(***************************************************************************)
CallCount(call) == Len(NormalizeFeedList(call.rss))

C4_UpsertOnlyOnIncrease ==
    [][/\ DOMAIN db \subseteq DOMAIN db'
       /\ \A k \in DOMAIN db :
            /\ StoredCount(db'[k]) >= StoredCount(db[k])
            /\ db'[k] # db[k] =>
                  /\ k = NormalizeUrl(lastSave'.website)
                  /\ CallCount(lastSave') > StoredCount(db[k])
                  /\ StoredCount(db'[k]) = CallCount(lastSave')]_vars

\* a call that ties with the stored count has been made and was skipped: the
\* stored record is not the one the call offered
C4_TieSkipped ==
    /\ lastSave.did = "skipped"
    /\ LET k == NormalizeUrl(lastSave.website)
       IN /\ CallCount(lastSave) = StoredCount(db[k])
          /\ CallCount(lastSave) > 0
          /\ db[k] # NewFeedString(NormalizeFeedList(lastSave.rss))


(***************************************************************************)
(* C1: process_all returns exactly one result per input site.              *)
(***************************************************************************)
C1_OneResultPerSite == batch = "returned" /\ websites # <<>> => Len(results) = Len(websites)

(***************************************************************************)
(* C2: a site all of whose network calls fail or time out makes            *)
(* process_website return, without raising, the normalised site URL with   *)
(* the 'Not found' sentinel; and what a task returns in a batch is what    *)
(* process_website returns for its site on its own, whatever the other     *)
(* sites of the batch do.                                                  *)
(***************************************************************************)
AllCallsFail(i) == calls[i] # {} /\ \A u \in calls[i] : FetchFails(Get(u))

C2_FailedSiteNotFound ==
    [][\A i \in Tasks :
         outcome'[i] # outcome[i] =>
            /\ outcome'[i] = ProcessWebsite(websites[i])
            /\ AllCallsFail(i) =>
                 outcome'[i] = [raised |-> FALSE, website |-> NormalizeUrl(websites[i]),
                                rss |-> "Not found"]]_vars

C2_FailedSiteBesideFoundSite ==
    \E i \in Tasks, j \in Tasks :
        /\ AllCallsFail(i)
        /\ outcome[i].rss = "Not found"
        /\ outcome[j].rss \notin {UNSET, "Not found"}

(***************************************************************************)
(* C3: the hub route is taken exactly for the inputs whose path contains   *)
(* one of the hub patterns, whatever the case of its letters.              *)
(***************************************************************************)
PathHasHubPattern(w) ==
    \E pattern \in {"/rss", "/feeds", "/feed-list", "/subscribe", "/syndication"} :
        Contains(Lower(Urlparse(WithScheme(w)).path), pattern)

C3_RouteByPath ==
    \A i \in Tasks : route[i] # "none" => (route[i] = "hub" <=> PathHasHubPattern(websites[i]))

(***************************************************************************)
(* C5: every URL find_feeds returns is a URL the feed validator said true  *)
(* of during that call.                                                    *)
(***************************************************************************)
ValidatedTrue(i) == {p.url : p \in {q \in probes[i] : q.by = "finder" /\ q.is_feed}}

C5_OnlyValidatedReturned == \A i \in Tasks : Range(found_feeds[i]) \subseteq ValidatedTrue(i)

(***************************************************************************)
(* C6: no two entries of the final feed list of a site normalise to the    *)
(* same feed URL.                                                          *)
(***************************************************************************)
C6_FinalListDeduplicated ==
    \A i \in Tasks : \A a \in 1..Len(feeds[i]), b \in 1..Len(feeds[i]) :
        NormalizeFeedUrl(feeds[i][a]) = NormalizeFeedUrl(feeds[i][b]) => a = b

(***************************************************************************)
(* C7: the feed validator, of the Feed Finder and of the hub parser, says  *)
(* feed exactly when the fetch answers 200 and the Content-Type contains   *)
(* xml, rss or atom in any case or a marker lies within the first 500      *)
(* characters of the lower-cased body; a failed fetch is not a feed.       *)
(***************************************************************************)
IsFeedResponse(resp) ==
    /\ resp.status = 200
    /\ \/ \E t \in {"xml", "rss", "atom"} : Contains(Lower(resp.ctype), t)
       \/ Let(Lower(resp.body), LAMBDA body :
              \E marker \in {"<rss", "<feed", "<?xml", "<atom"} :
                  \E at \in 1..(500 - Len(marker) + 1) : OccursAt(body, marker, at))

C7_ValidatorClassification ==
    [][\A i \in Tasks : \A p \in probes'[i] \ probes[i] :
           p.is_feed = IsFeedResponse(Get(p.url))]_vars

C7_EveryKindOfAnswerProbed ==
    \E i \in Tasks :
        /\ \E p \in probes[i] : p.is_feed /\ Get(p.url).ctype = "text/html"
        /\ \E p \in probes[i] : ~p.is_feed /\ Get(p.url).status = 404
                                /\ Get(p.url).ctype = "application/xml"
        /\ \E p \in probes[i] : ~p.is_feed /\ Get(p.url).status = 200
                                /\ Len(Get(p.url).body) > 500
        /\ \E p \in probes[i] : ~p.is_feed /\ Get(p.url).status = 0

(***************************************************************************)
(* C9: at most max_concurrent tasks are inside the section the global      *)
(* limiter guards.                                                         *)
(***************************************************************************)
C9_GlobalLimiter == Cardinality({i \in Tasks : pc[i] \in Inside}) <= max_concurrent

C9_LimiterFullTaskWaiting ==
    /\ Cardinality({i \in Tasks : pc[i] \in Inside}) = max_concurrent
    /\ max_concurrent > 1
    /\ \E i \in Tasks : pc[i] = "created"

(***************************************************************************)
(* C10: during a call of validate_feeds at most 10 validation fetches are  *)
(* in flight, and it returns exactly the input records whose URL validated *)
(* true, each once and unaltered.                                          *)
(***************************************************************************)
InFlight(i) == {k \in 1..Len(vpc[i]) : vpc[i][k] = "checking"}

C10_ValidationLimiter ==
    /\ [](\A i \in Tasks : Cardinality(InFlight(i)) <= 10)
    /\ [][\A i \in Tasks :
            pc[i] = "validating" /\ pc'[i] # "validating" =>
               /\ \A f \in Range(vin[i]) :
                    f \in Range(feed_objects'[i])
                       <=> [url |-> f.url, is_feed |-> TRUE, by |-> "hub"] \in probes[i]
               /\ Range(feed_objects'[i]) \subseteq Range(vin[i])
               /\ Cardinality(Range(feed_objects'[i])) = Len(feed_objects'[i])]_vars

C10_TenInFlightOneWaiting ==
    \E i \in Tasks :
        /\ Cardinality(InFlight(i)) = 10
        /\ \E k \in 1..Len(vpc[i]) : vpc[i][k] = "waiting"


(***************************************************************************)
(* C11: looks_like_hub_page says hub exactly when the lower-cased body     *)
(* contains at least 2 distinct indicator phrases or at least 3            *)
(* occurrences of the feed-link patterns; a body with exactly 1 phrase and *)
(* exactly 2 occurrences is not a hub page.                                *)
(***************************************************************************)
IndicatorPhrases(body) ==
    Let(Lower(body), LAMBDA text :
        Cardinality({phrase \in {"rss feed", "subscribe to", "feed url", "syndication",
                                 "available feeds", "rss feeds", "atom feed", "news feeds",
                                 "feed list", "rss channels", "subscribe via rss"} :
                        \E at \in 1..Len(text) : OccursAt(text, phrase, at)}))

LinkLikeOccurrences(body) ==
    Let(Lower(body), LAMBDA text :
        Cardinality({occ \in {".xml", "href=\"/feed", "href=\"/rss", "atom.xml"} \X (1..Len(text)) :
                        OccursAt(text, occ[1], occ[2])}))

C11_HubPageThresholds ==
    fn = "hub" =>
        (once = "True" <=> (IndicatorPhrases(arg) >= 2 \/ LinkLikeOccurrences(arg) >= 3))

C11_OnePhraseTwoLinksNotHub ==
    /\ fn = "hub"
    /\ once = "False"
    /\ IndicatorPhrases(arg) = 1
    /\ LinkLikeOccurrences(arg) = 2


(***************************************************************************)
(* C12: process_all is invoked, and a site fetched, only after the pool    *)
(* was created and the schema initialised; when create_db_pool fails,      *)
(* processing never begins.                                                *)
(***************************************************************************)
ProcessingBegun == websites # <<>> \/ batch = "running" \/ \E i \in Tasks : calls[i] # {}

C12_NoProcessingBeforePoolAndSchema ==
    /\ ProcessingBegun => pool # "none" /\ schema
    /\ pool = "none" => ~ProcessingBegun

C12_ConnectFailedNothingFetched ==
    /\ main = "done"
    /\ csv # <<>>
    /\ pool = "none"
    /\ ~ProcessingBegun


(***************************************************************************)
(* C13: on the hub route validate_feeds runs exactly when parse_feeds      *)
(* yields more than 5 records.  With 6 or more records the accepted        *)
(* records are those whose URL the validator says feed of; with 1 to 5     *)
(* all records are accepted and no GET beside that of the hub page is      *)
(* sent.                                                                   *)
(***************************************************************************)
HubRecords(i) ==
    IF ParseFeedsRaises(site[i], Get(site[i])) THEN <<>> ELSE ParseFeeds(site[i], Get(site[i]))

ValidRecords(records) ==
    Map(SortedSeqOfNats({k \in 1..Len(records) : HubCheckFeed(Get(records[k].url))}),
        LAMBDA k : records[k])

HubRouteDone(i) == route[i] = "hub" /\ pc[i] = "returned"

C13_ValidationOverFiveRecords ==
    \A i \in Tasks :
        /\ pc[i] = "validating" => Len(vin[i]) >= 6 /\ feed_objects[i] = vin[i]
        /\ HubRouteDone(i) =>
             \A records \in {HubRecords(i)} :
                 /\ vin[i] \in {<<>>, records}
                 /\ (calls[i] # {site[i]} \/ probes[i] # {} \/ vin[i] # <<>>)
                       <=> Len(records) >= 6
                 /\ Len(records) >= 6 =>
                      /\ feed_objects[i] = ValidRecords(records)
                      /\ {p.url : p \in probes[i]} = {r.url : r \in Range(records)}
                 /\ Len(records) \in 1..5 => feed_objects[i] = records
                 /\ feeds[i] = NormalizedFeeds(Map(feed_objects[i], RecordUrl))

C13_FiveFailingRecordsAccepted ==
    \E i \in Tasks :
        /\ HubRouteDone(i)
        /\ Len(HubRecords(i)) = 5
        /\ Len(feeds[i]) = 5
        /\ probes[i] = {}
        /\ \A r \in Range(HubRecords(i)) : ~HubCheckFeed(Get(r.url))

SixRecordsOneValid ==
    \E i \in Tasks : HubRouteDone(i) /\ Len(HubRecords(i)) = 6 /\ Len(feeds[i]) = 1


(***************************************************************************)
(* C14: a site given with a path beside the root, once through the Feed    *)
(* Finder route with its page fetched, has had the five URLs origin +      *)
(* path + /feed, /feed.xml, /rss, /rss.xml, /atom.xml requested; a site    *)
(* given with the root path only has had no nested-path request.           *)
(***************************************************************************)
GivenPath(w) == Strip(RStrip(Urlparse(WithScheme(w)).path, "/"))

NestedUrlsOf(w) ==
    {NormalizeUrl(w) \o RStrip(Urlparse(WithScheme(w)).path, "/") \o NestedPaths[k] :
         k \in 1..Len(NestedPaths)}

FinderRouteDone(i) ==
    /\ route[i] = "finder"
    /\ pc[i] = "returned"
    /\ ~FetchFails(Get(site[i]))

C14_NestedPathsProbed ==
    \A i \in Tasks : FinderRouteDone(i) =>
        IF GivenPath(websites[i]) # ""
        THEN NestedUrlsOf(websites[i]) \subseteq calls[i]
        ELSE found[i]["nested"] = <<>> /\ spc[i]["nested"] = "done"


(***************************************************************************)
(* C15: find_feeds merges only when each of the five strategies has        *)
(* returned or raised; every candidate of a strategy that did not raise    *)
(* has been probed, every one of them the validator said feed of is in     *)
(* the merged list (in normalised form), whatever the other strategies     *)
(* did, and find_feeds does not raise.                                     *)
(***************************************************************************)
Through(i, st) == spc[i][st] \in {"done", "raised"}

ProbedUrls(i) == {p.url : p \in probes[i]}

C15_StrategyIsolation ==
    \A i \in Tasks :
        /\ found_feeds[i] # <<>> => \A st \in Strategies : Through(i, st)
        /\ FinderRouteDone(i) =>
             /\ ~outcome[i].raised
             /\ \A resp \in {Get(site[i])}, st \in Strategies :
                  /\ Through(i, st)
                  /\ ~StrategyRaises(st, site[i], resp) =>
                       \A u \in Range(Candidates(st, site[i], resp)) :
                           /\ u \in ProbedUrls(i)
                           /\ CheckFeed(Get(u)) =>
                                NormalizeFeedUrl(u) \in Range(found_feeds[i])

C15_OneRaisedOneEmptyOthersKept ==
    \E i \in Tasks :
        /\ FinderRouteDone(i)
        /\ \E st \in Strategies : spc[i][st] = "raised"
        /\ \E st \in Strategies :
             /\ spc[i][st] = "done"
             /\ Candidates(st, site[i], Get(site[i])) # <<>>
             /\ found[i][st] = <<>>
        /\ \E st \in Strategies : found[i][st] # <<>>
        /\ found_feeds[i] # <<>>


(***************************************************************************)
(* C16: the route of a site is taken from its URL before the first GET     *)
(* and never changes; on the hub route find_feeds is never entered, no     *)
(* strategy runs and no Feed Finder probe is made, and when the hub page   *)
(* fails to parse or yields no record the result is the sentinel after     *)
(* the one GET of the hub page.                                            *)
(***************************************************************************)
InFindFeeds(i) ==
    \/ pc[i] \in {"finder", "strategies"}
    \/ \E st \in Strategies : spc[i][st] # "idle"
    \/ found_feeds[i] # <<>>
    \/ \E p \in probes[i] : p.by = "finder"

RouteTaken(i) ==
    /\ calls[i] # {} => route[i] # "none"
    /\ route[i] # "none" => (route[i] = "hub" <=> IsHubPage(site[i]))
    /\ route[i] = "hub" => ~InFindFeeds(i)
    /\ HubRouteDone(i) /\ HubRecords(i) = <<>> =>
         /\ outcome[i].rss = NotFound
         /\ calls[i] = {site[i]}

RouteKept == \A i \in Tasks : route[i] # "none" => route'[i] = route[i]

C16_RouteDecidedOnce == [](\A i \in Tasks : RouteTaken(i)) /\ [][RouteKept]_vars

C16_EmptyHubNotFound ==
    \E i \in Tasks :
        /\ HubRouteDone(i)
        /\ ParseFeedsRaises(site[i], Get(site[i]))
        /\ outcome[i].rss = NotFound
        /\ ~InFindFeeds(i)


(***************************************************************************)
(* C17: with every request answered or timed out, every task of a batch    *)
(* ends, process_all returns, and from then on every permit of the global  *)
(* limiter and of the validation limiters is free; at any time the free    *)
(* permits of the global limiter are those not held by a task inside       *)
(* process_website, whichever way the tasks before left it.                *)
(***************************************************************************)
PermitsAccounted ==
    /\ semaphore + Cardinality({i \in Tasks : pc[i] \in Inside}) = max_concurrent
    /\ \A i \in Tasks :
         pc[i] = "validating" => vsem[i] + Cardinality(InFlight(i)) = ValidateLimit

AllReturned ==
    /\ batch = "returned"
    /\ \A i \in Tasks : pc[i] = "collected"
    /\ semaphore = max_concurrent
    /\ \A i \in Tasks : InFlight(i) = {}
    /\ Len(results) = Cardinality({i \in Tasks : ~outcome[i].raised})

C17_BatchTerminatesNoLeak == []PermitsAccounted /\ <>[]AllReturned

C17_ReturnedAfterFullValidation ==
    /\ AllReturned
    /\ Len(websites) > max_concurrent
    /\ \E i \in Tasks : Len(vin[i]) > ValidateLimit
    /\ \E i \in Tasks : route[i] = "finder" /\ outcome[i].rss = NotFound


(***************************************************************************)
(* C18: the feed list of a site, joined with '; ' by process_website and   *)
(* split again by normalize_feed_list, is the same set of URLs with the    *)
(* same count.                                                             *)
(***************************************************************************)
C18_JoinSplitRoundTrip ==
    \A i \in Tasks :
        pc[i] \in {"returned", "collected"} /\ ~outcome[i].raised =>
            /\ ~NormalizeFeedListRaises(outcome[i].rss)
            /\ Range(NormalizeFeedList(outcome[i].rss)) = Range(feeds[i])
            /\ Len(NormalizeFeedList(outcome[i].rss)) = Len(feeds[i])

=============================================================================
